---- MODULE Spec2Model ----
(***************************************************************************)
(* Adaptive strategy backtesting and portfolio allocation:                 *)
(*   backteste/strategy_portfolio.py  StrategyPortfolio                    *)
(*   backteste/strategy_evaluator.py  StrategyEvaluator                    *)
(*   backteste/adaptive_learning.py   AdaptiveLearningSystem               *)
(*                                                                         *)
(* Numbers.  The program computes in IEEE double precision.  The model     *)
(* computes in exact rationals extended with the three non-finite values a *)
(* double can take (+inf, -inf, NaN), so that every comparison the code    *)
(* makes has the outcome it has on the doubles, up to rounding errors far  *)
(* below the 1e-6 tolerance the specification allows.  A number is a       *)
(* record [k, n, d]: k = "fin" is the fraction n/d in lowest terms, d > 0; *)
(* k = "inf" is the infinity of sign n; k = "nan" is NaN.                  *)
(***************************************************************************)
EXTENDS Integers, Sequences, FiniteSets, TLC

VARIABLES
    strategies,              \* AdaptiveLearningSystem.strategies: the registered ids
    strategy_scores,         \* StrategyEvaluator.strategy_scores: id -> latest score
    strategy_scores_keys,    \* the keys of strategy_scores in insertion order
    historical_scores,       \* StrategyEvaluator.historical_scores: id -> list of scores
    allocations,             \* StrategyPortfolio.allocations: id -> allocation
    current_capital,         \* StrategyPortfolio.current_capital
    historical_performance,  \* StrategyPortfolio.historical_performance: its length
    backtest,                \* BacktestEngine.run_backtest: the run in progress
    last                     \* the call that produced this state, and what it did

vars == <<strategies, strategy_scores, strategy_scores_keys, historical_scores, allocations,
          current_capital, historical_performance, backtest, last>>

-----------------------------------------------------------------------------
(* Extended rational arithmetic, as the doubles behave.                    *)

Abs(x) == IF x < 0 THEN -x ELSE x

RECURSIVE Gcd(_, _)
Gcd(a, b) == IF b = 0 THEN a ELSE Gcd(b, a % b)

NaN == [k |-> "nan", n |-> 0, d |-> 1]
PosInf == [k |-> "inf", n |-> 1, d |-> 1]
NegInf == [k |-> "inf", n |-> -1, d |-> 1]

Frac(n, d) ==
    LET s == IF d < 0 THEN -1 ELSE 1
        g == Gcd(Abs(n), Abs(d))
    IN  [k |-> "fin", n |-> (s * n) \div g, d |-> (s * d) \div g]

\* The arithmetic cancels common factors before it multiplies, so that the
\* integers stay as small as the fractions allow.
Lcm(a, b) == (a \div Gcd(a, b)) * b

Zero == Frac(0, 1)
One == Frac(1, 1)

IsFin(a) == a.k = "fin"
IsNaN(a) == a.k = "nan"
Sign(a) == IF a.n > 0 THEN 1 ELSE IF a.n < 0 THEN -1 ELSE 0

RAdd(a, b) ==
    IF IsNaN(a) \/ IsNaN(b) THEN NaN
    ELSE IF IsFin(a) /\ IsFin(b)
    THEN Frac(a.n * (Lcm(a.d, b.d) \div a.d) + b.n * (Lcm(a.d, b.d) \div b.d),
              Lcm(a.d, b.d))
    ELSE IF IsFin(a) THEN b
    ELSE IF IsFin(b) THEN a
    ELSE IF a.n = b.n THEN a ELSE NaN

RNeg(a) == IF IsNaN(a) THEN NaN ELSE [a EXCEPT !.n = -a.n]

RSub(a, b) == RAdd(a, RNeg(b))

RAbs(a) == IF IsNaN(a) THEN NaN ELSE [a EXCEPT !.n = Abs(a.n)]

RMul(a, b) ==
    IF IsNaN(a) \/ IsNaN(b) THEN NaN
    ELSE IF IsFin(a) /\ IsFin(b)
    THEN Frac((a.n \div Gcd(Abs(a.n), b.d)) * (b.n \div Gcd(Abs(b.n), a.d)),
              (a.d \div Gcd(Abs(b.n), a.d)) * (b.d \div Gcd(Abs(a.n), b.d)))
    ELSE IF Sign(a) * Sign(b) = 0 THEN NaN
    ELSE IF Sign(a) * Sign(b) > 0 THEN PosInf ELSE NegInf

\* Division of numpy doubles: x/0 is an infinity or NaN, never an exception.
RDiv(a, b) ==
    IF IsNaN(a) \/ IsNaN(b) THEN NaN
    ELSE IF IsFin(a) /\ IsFin(b) THEN
        IF b.n # 0 THEN RMul(a, Frac(b.d, b.n))
        ELSE IF a.n = 0 THEN NaN
        ELSE IF a.n > 0 THEN PosInf ELSE NegInf
    ELSE IF IsFin(a) THEN Zero
    ELSE IF IsFin(b) THEN (IF Sign(b) < 0 THEN RNeg(a) ELSE a)
    ELSE NaN

RLt(a, b) ==
    IF IsNaN(a) \/ IsNaN(b) THEN FALSE
    ELSE IF IsFin(a) /\ IsFin(b) THEN Sign(RSub(a, b)) < 0
    ELSE IF IsFin(a) THEN b.n > 0
    ELSE IF IsFin(b) THEN a.n < 0
    ELSE a.n < b.n

RGt(a, b) == RLt(b, a)
RGe(a, b) == ~IsNaN(a) /\ ~IsNaN(b) /\ ~RLt(a, b)
RLe(a, b) == RGe(b, a)

\* Python's min(a, b): the first argument unless the second is smaller.
PyMin(a, b) == IF RLt(b, a) THEN b ELSE a

RECURSIVE RSum(_, _)
RSum(f, S) ==
    IF S = {} THEN Zero
    ELSE LET x == CHOOSE y \in S : TRUE
         IN  RAdd(f[x], RSum(f, S \ {x}))

\* The square root of a number that is the square of a rational (every
\* variance below is one): +inf stays +inf, NaN stays NaN.
ISqrt(m) == CHOOSE r \in 0..m : r * r = m
RSqrt(a) == IF IsFin(a) THEN Frac(ISqrt(a.n), ISqrt(a.d)) ELSE a

-----------------------------------------------------------------------------
(* Inputs.                                                                 *)

StrategyIds == {"s1", "s2", "s3"}
NoId == "none"

\* A StrategyScore, reduced to the fields the portfolio and the retirement
\* rules read: overall_score and performance_metrics['max_drawdown'].
Score(o, md) == [overall |-> o, max_drawdown |-> md]

-----------------------------------------------------------------------------
(* StrategyPortfolio.  A portfolio is the record of its three mutable      *)
(* fields; each method is a function from the portfolio before the call to *)
(* the portfolio after it.                                                 *)

min_score_threshold == Frac(4, 10)
MaxWeight == Frac(25, 100)
MaxAllocationFactor == Frac(15, 10)

Portfolio(a, c, h) ==
    [allocations |-> a, current_capital |-> c, historical_performance |-> h]

\* numpy tells the type of weight: a numpy.float64 as _optimize_weights
\* returns it, or a Python float as a caller passes it.  Both hold a double;
\* they differ when divided by zero.
StrategyAllocation(w, m, c, np) ==
    [weight |-> w, max_allocation |-> m, current_allocation |-> c, numpy |-> np]

\* valid_strategies of update_portfolio; scores is a function id -> Score.
ValidStrategiesLax(scores) ==
    {s \in DOMAIN scores : RGt(scores[s].overall, Zero)}
ValidStrategies(scores) ==
    {s \in DOMAIN scores : RGe(scores[s].overall, min_score_threshold)}

\* _optimize_weights over the strategies V of scores.
OptimizeWeights(scores, V) ==
    LET variances == [s \in V |-> RMul(scores[s].max_drawdown, scores[s].max_drawdown)]
        \* the diagonal of outer(sqrt(var), sqrt(var)) * correlation, correlation 1.0 there
        diag == [s \in V |-> RMul(RMul(RSqrt(variances[s]), RSqrt(variances[s])), One)]
        raw == [s \in V |-> RDiv(One, RSqrt(diag[s]))]
        total == RSum(raw, V)
    IN  [s \in V |-> RDiv(raw[s], total)]

\* _record_portfolio_state: appends one snapshot; nothing reads the snapshots.
RecordPortfolioState(h) == h + 1

\* _handle_strategy_removal, for every strategy of the set R in turn.
RECURSIVE HandleStrategyRemoval(_, _, _)
HandleStrategyRemoval(capital, allocs, R) ==
    IF R = {} THEN capital
    ELSE LET s == CHOOSE x \in R : TRUE
         IN  HandleStrategyRemoval(RAdd(capital, allocs[s].current_allocation),
                                   allocs, R \ {s})

\* StrategyPortfolio.update_portfolio(strategy_scores)
UpdatePortfolio(P, scores) ==
    LET V == ValidStrategies(scores)
        weights == OptimizeWeights(scores, V)
        new_allocations == [s \in V |-> StrategyAllocation(
                               weights[s],
                               PyMin(MaxWeight, RMul(weights[s], MaxAllocationFactor)),
                               RMul(P.current_capital, weights[s]),
                               TRUE)]
        removed_strategies == DOMAIN P.allocations \ V
    IN  IF V = {} THEN P
        ELSE Portfolio(new_allocations,
                       HandleStrategyRemoval(P.current_capital, P.allocations,
                                             removed_strategies),
                       RecordPortfolioState(P.historical_performance))

\* StrategyPortfolio.adjust_allocation(strategy_id, new_weight)
AdjustAllocation(P, id, w) ==
    IF id \notin DOMAIN P.allocations THEN P
    ELSE LET new_weight == PyMin(w, MaxWeight)
             others == DOMAIN P.allocations \ {id}
             total_other_weight == RSum([s \in others |-> P.allocations[s].weight], others)
             scale_factor == RDiv(RSub(One, new_weight), total_other_weight)
             scaled == [s \in DOMAIN P.allocations |->
                          IF s # id /\ RGt(total_other_weight, Zero)
                          THEN [P.allocations[s] EXCEPT
                                  !.weight = RMul(@, scale_factor),
                                  !.numpy = \E o \in others : P.allocations[o].numpy,
                                  !.current_allocation =
                                      RMul(P.current_capital,
                                           RMul(P.allocations[s].weight, scale_factor))]
                          ELSE P.allocations[s]]
         IN  Portfolio([scaled EXCEPT
                           ![id].weight = new_weight,
                           ![id].numpy = FALSE,
                           ![id].current_allocation = RMul(P.current_capital, new_weight)],
                       P.current_capital,
                       RecordPortfolioState(P.historical_performance))

-----------------------------------------------------------------------------
(* StrategyEvaluator.  hs is historical_scores: a function from the ids    *)
(* that were ever scored to their list of scores, oldest first.            *)

DefaultWindow == 5
RetireBelow == Frac(3, 10)
KeepFrom == Frac(4, 10)
BadRunLength == 3

Range(q) == {q[i] : i \in 1..Len(q)}

\* history[-n:], the last n entries (all of them when there are fewer)
LastN(q, n) == IF Len(q) <= n THEN q ELSE SubSeq(q, Len(q) - n + 1, Len(q))

\* get_strategy_history
GetStrategyHistory(hs, id) == IF id \in DOMAIN hs THEN hs[id] ELSE <<>>

\* What a least-squares fit in doubles returns for a slope that is exactly
\* zero: zero, or the rounding residue of the solver.  A positive residue
\* passes every test of the code as zero does; the negative one is kept.
Roundings == {Frac(-1, 1000000000), Zero}

\* np.polyfit(range(len(ys)), ys, 1)[0]: the least-squares slope of ys against
\* the run index 0..len-1, which is sum((x - mean x) * y) / sum((x - mean x)^2).
\* The fit is solved by LAPACK on the ordinates as they are: one non-finite
\* ordinate makes every coefficient NaN, and a slope that is exactly zero
\* comes out as the rounding residue of the solver, given as rounding.
PolyfitSlope(ys, rounding) ==
    LET n == Len(ys)
        I == 1..n
        \* 2 * (x - mean x) for x = i - 1, and 4 * sum((x - mean x)^2)
        dev == [i \in I |-> 2 * (i - 1) - (n - 1)]
        sxy == RSum([i \in I |-> RMul(Frac(dev[i], 1), ys[i])], I)
        sxx == RSum([i \in I |-> Frac(dev[i] * dev[i], 1)], I)
        exact == RDiv(RMul(Frac(2, 1), sxy), sxx)
    IN  IF \E i \in I : ~IsFin(ys[i]) THEN NaN
        ELSE IF exact = Zero THEN rounding
        ELSE exact

\* is_strategy_declining(strategy_id, window)
IsStrategyDeclining(hs, id, window, rounding) ==
    LET history == GetStrategyHistory(hs, id)
        recent_scores == [i \in 1..Len(LastN(history, window)) |->
                             LastN(history, window)[i].overall]
    IN  IF Len(history) < window THEN FALSE
        ELSE RLt(PolyfitSlope(recent_scores, rounding), Zero)

ShouldRetireStrategyEager(hs, id, rounding) ==
    LET history == GetStrategyHistory(hs, id)
    IN  history = <<>> \/ RLt(history[Len(history)].overall, RetireBelow)
ShouldRetireStrategyNoTrend(hs, id, rounding) ==
    LET history == GetStrategyHistory(hs, id)
    IN  IF history = <<>> THEN FALSE
        ELSE \/ RLt(history[Len(history)].overall, RetireBelow)
             \/ /\ Len(history) >= BadRunLength
                /\ \A sc \in Range(LastN(history, BadRunLength)) :
                       RLt(sc.overall, KeepFrom)
\* should_retire_strategy(strategy_id)
ShouldRetireStrategy(hs, id, rounding) ==
    LET history == GetStrategyHistory(hs, id)
        current_score == history[Len(history)].overall
    IN  IF history = <<>> THEN FALSE
        ELSE \/ RLt(current_score, RetireBelow)
             \/ IsStrategyDeclining(hs, id, DefaultWindow, rounding)
             \/ /\ Len(history) >= BadRunLength
                /\ \A sc \in Range(LastN(history, BadRunLength)) :
                       RLt(sc.overall, KeepFrom)

\* The stores of evaluate_strategy once the score sc of strategy id is computed.
StoreKey(keys, id) == IF id \in Range(keys) THEN keys ELSE Append(keys, id)
StoreLatest(latest, id, sc) ==
    [s \in DOMAIN latest \cup {id} |-> IF s = id THEN sc ELSE latest[s]]
StoreHistoryOverwriting(hs, id, sc) ==
    [s \in DOMAIN hs \cup {id} |-> IF s = id THEN <<sc>> ELSE hs[s]]
StoreHistory(hs, id, sc) ==
    [s \in DOMAIN hs \cup {id} |->
        IF s = id THEN Append(GetStrategyHistory(hs, id), sc) ELSE hs[s]]

\* get_top_strategies(n): sorted(strategy_scores.values(), key=overall_score,
\* reverse=True)[:n], each score given by its strategy_id.  sorted is stable,
\* also with reverse=True: scores with equal keys keep the order of
\* strategy_scores.values(), the insertion order of the keys.  The keys
\* compared are finite numbers.
InsertByScore(latest, q, id) ==
    LET k == Cardinality({i \in 1..Len(q) :
                             RGe(latest[q[i]].overall, latest[id].overall)})
    IN  SubSeq(q, 1, k) \o <<id>> \o SubSeq(q, k + 1, Len(q))
RECURSIVE SortedByScore(_, _)
SortedByScore(latest, keys) ==
    IF keys = <<>> THEN <<>>
    ELSE InsertByScore(latest, SortedByScore(latest, SubSeq(keys, 1, Len(keys) - 1)),
                       keys[Len(keys)])
GetTopStrategies(latest, keys, n) ==
    SubSeq(SortedByScore(latest, keys), 1, IF n < Len(keys) THEN n ELSE Len(keys))

\* evaluate_strategy(backtest_results): the score computed from a list of
\* BacktestResults.  A result is the record of its five metrics and of the
\* three market conditions detected for its period.
MarketCondition == {"bull", "bear", "sideways", "volatile", "low_volatility"}

Result(sharpe, drawdown, win_rate, profit_factor, rar, conditions) ==
    [sharpe_ratio |-> sharpe, max_drawdown |-> drawdown, win_rate |-> win_rate,
     profit_factor |-> profit_factor, risk_adjusted_return |-> rar,
     market_conditions |-> conditions]

Metric(results, m) == [i \in 1..Len(results) |-> results[i][m]]

\* np.mean of a non-empty list
ListMean(q) == RDiv(RSum(q, 1..Len(q)), Frac(Len(q), 1))

\* np.std of a list of one or two numbers: half the distance of the two, and
\* NaN as soon as one of them is not finite (inf - inf in the deviations)
ListStd(q) ==
    IF \E i \in 1..Len(q) : ~IsFin(q[i]) THEN NaN
    ELSE IF Len(q) = 1 THEN Zero
    ELSE RDiv(RAbs(RSub(q[1], q[2])), Frac(2, 1))

performance_weights ==
    [sharpe_ratio |-> Frac(25, 100), max_drawdown |-> Frac(20, 100),
     win_rate |-> Frac(15, 100), profit_factor |-> Frac(20, 100),
     risk_adjusted_return |-> Frac(20, 100)]

AvgMetrics(results) ==
    [m \in DOMAIN performance_weights |-> ListMean(Metric(results, m))]

\* _analyze_market_adaptability: per condition, the mean of the Sharpe ratios
\* of the results, each counted once for every period part (start, middle,
\* end) in that condition; 0.0 for a condition no result was in.
Occurrences(result, condition) ==
    Cardinality({p \in 1..Len(result.market_conditions) :
                    result.market_conditions[p] = condition})
InCondition(results, condition) ==
    {i \in 1..Len(results) : Occurrences(results[i], condition) > 0}
ConditionMean(results, condition, I) ==
    IF I = {} THEN Zero
    ELSE RDiv(RSum([i \in I |-> RMul(Frac(Occurrences(results[i], condition), 1),
                                      results[i].sharpe_ratio)], I),
              RSum([i \in I |-> Frac(Occurrences(results[i], condition), 1)], I))
AnalyzeMarketAdaptability(results) ==
    [c \in MarketCondition |-> ConditionMean(results, c, InCondition(results, c))]

\* _calculate_consistency
Normalized(var) == RDiv(One, RAdd(One, var))
CalculateConsistency(results) ==
    IF Len(results) < 2 THEN Zero
    ELSE RDiv(RAdd(RAdd(Normalized(ListStd(Metric(results, "sharpe_ratio"))),
                        Normalized(ListStd(Metric(results, "win_rate")))),
                   Normalized(ListStd(Metric(results, "profit_factor")))),
              Frac(3, 1))

\* _calculate_overall_score
PerformanceTerm(metrics, m) == RMul(metrics[m], performance_weights[m])
PerformanceScore(metrics) ==
    RSum([m \in DOMAIN performance_weights |-> PerformanceTerm(metrics, m)],
         DOMAIN performance_weights)
AdaptabilityScore(market_adaptability) ==
    RDiv(RSum(market_adaptability, MarketCondition),
         Frac(Cardinality(MarketCondition), 1))
CalculateOverallScore(metrics, market_adaptability, consistency) ==
    RAdd(RAdd(RMul(PerformanceScore(metrics), Frac(5, 10)),
              RMul(AdaptabilityScore(market_adaptability), Frac(3, 10))),
         RMul(consistency, Frac(2, 10)))

\* the StrategyScore of a non-empty list of results
StrategyScore(results) ==
    [overall_score |-> CalculateOverallScore(AvgMetrics(results),
                                             AnalyzeMarketAdaptability(results),
                                             CalculateConsistency(results)),
     performance_metrics |-> AvgMetrics(results),
     market_adaptability |-> AnalyzeMarketAdaptability(results),
     consistency_score |-> CalculateConsistency(results)]

-----------------------------------------------------------------------------
(* AdaptiveLearningSystem.  strategies is the registry in insertion order  *)
(* (a Python dict): a list of distinct ids.  A strategy is registered      *)
(* under the id it reports as strategy.id, so the scores the evaluator     *)
(* files under strategy.id are the ones the registry key finds.            *)

\* The ids whose strategy class defines optimize_parameters.
AdaptiveIds == {"s1", "s3"}

Without(q, id) == SelectSeq(q, LAMBDA x : x # id)

\* update_portfolio(): the latest scores that reach the threshold go to the
\* portfolio; an exception of the logging that follows is caught.
QualifyingScores(latest) ==
    LET Q == {s \in DOMAIN latest : RGe(latest[s].overall, KeepFrom)}
    IN  [s \in Q |-> latest[s]]

SystemUpdatePortfolio(P, latest) ==
    UpdatePortfolio(P, QualifyingScores(latest))

-----------------------------------------------------------------------------
(* BacktestEngine.run_backtest, bar by bar.  The run is the record of the   *)
(* local variables of the loop: the closes of the bars read so far, the     *)
(* capital, the open position, the positions opened and the trades closed.  *)
(* Two of the metrics, sharpe_ratio and risk_adjusted_return, divide by a   *)
(* standard deviation: they are held unevaluated (OverRoot).                *)

initial_capital == 100000
PositionFraction == Frac(2, 100)
RiskFreeRate == Frac(2, 100)
TradingDays == 252

NoPosition == [type |-> "none", entry_price |-> 0, entry_time |-> 0, size |-> Zero]

\* the trade appended when the position pos is closed at exit_price on the
\* bar exit_time
ClosedTrade(pos, exit_price, exit_time) ==
    [type |-> pos.type, entry_time |-> pos.entry_time, exit_time |-> exit_time,
     entry_price |-> pos.entry_price, exit_price |-> exit_price,
     pnl |-> IF pos.type = "short"
             THEN RNeg(RMul(Frac(exit_price - pos.entry_price, 1), pos.size))
             ELSE RMul(Frac(exit_price - pos.entry_price, 1), pos.size)]
NoResult == [done |-> FALSE]

\* data and strategy are the arguments of a run whose strategy is one of
\* Strategies; signals are the answers of generate_signal so far.
NoBacktest ==
    [data |-> <<>>, strategy |-> "none", signals |-> <<>>,
     closes |-> <<>>, capital |-> Frac(initial_capital, 1),
     current_position |-> NoPosition, positions |-> 0, trades |-> <<>>,
     result |-> NoResult]

\* One round of the loop: the bar closes at close, generate_signal answers
\* signal.  The name (index) of a bar is its number, from 1.
BacktestBarReversing(B, close, signal) ==
    IF signal # 0
    THEN [B EXCEPT !.closes = Append(@, close),
                   !.signals = Append(@, signal),
                   !.trades = IF B.current_position = NoPosition THEN @
                              ELSE Append(@, ClosedTrade(B.current_position, close,
                                                         Len(B.closes) + 1)),
                   !.capital = IF B.current_position = NoPosition THEN @
                               ELSE RAdd(@, ClosedTrade(B.current_position, close,
                                                        Len(B.closes) + 1).pnl),
                   !.current_position =
                       [type |-> IF signal > 0 THEN "long" ELSE "short",
                        entry_price |-> close,
                        entry_time |-> Len(B.closes) + 1,
                        size |-> RDiv(RMul(B.capital, PositionFraction),
                                      Frac(close, 1))],
                   !.positions = @ + 1]
    ELSE IF B.current_position # NoPosition
    THEN [B EXCEPT !.closes = Append(@, close),
                   !.signals = Append(@, signal),
                   !.trades = Append(@, ClosedTrade(B.current_position, close,
                                                    Len(B.closes) + 1)),
                   !.capital = RAdd(@, ClosedTrade(B.current_position, close,
                                                   Len(B.closes) + 1).pnl),
                   !.current_position = NoPosition]
    ELSE [B EXCEPT !.closes = Append(@, close), !.signals = Append(@, signal)]
BacktestBar(B, close, signal) ==
    IF signal # 0 /\ B.current_position = NoPosition
    THEN [B EXCEPT !.closes = Append(@, close),
                   !.signals = Append(@, signal),
                   !.current_position =
                       [type |-> IF signal > 0 THEN "long" ELSE "short",
                        entry_price |-> close,
                        entry_time |-> Len(B.closes) + 1,
                        size |-> RDiv(RMul(B.capital, PositionFraction),
                                      Frac(close, 1))],
                   !.positions = @ + 1]
    ELSE IF signal = 0 /\ B.current_position # NoPosition
    THEN [B EXCEPT !.closes = Append(@, close),
                   !.signals = Append(@, signal),
                   !.trades = Append(@, ClosedTrade(B.current_position, close,
                                                    Len(B.closes) + 1)),
                   !.capital = RAdd(@, ClosedTrade(B.current_position, close,
                                                   Len(B.closes) + 1).pnl),
                   !.current_position = NoPosition]
    ELSE [B EXCEPT !.closes = Append(@, close), !.signals = Append(@, signal)]

\* generate_signal of the strategies run: each a deterministic function of
\* the frame it is given, a list of closes.
Strategies == {"breakout", "reversal", "alternate"}
GenerateSignal(strategy, frame) ==
    LET n == Len(frame)
    IN  IF strategy = "breakout"
        THEN (IF frame[n] = 150 THEN 1 ELSE 0)
        ELSE IF strategy = "reversal"
        THEN (IF n < 2 \/ frame[n] = frame[n - 1] THEN 0
              ELSE IF frame[n] > frame[n - 1] THEN 1 ELSE -1)
        ELSE (IF n % 2 = 1 THEN 1 ELSE 0)

\* the frame generate_signal receives at bar i: data.iloc[:i+1]
WholeFrame(data, i) == data
Frame(data, i) == SubSeq(data, 1, i)

\* The round of the loop for bar i of data, and the loop up to bar k.
LoopBar(B, i) ==
    BacktestBar(B, B.data[i], GenerateSignal(B.strategy, Frame(B.data, i)))
RECURSIVE LoopTo(_, _, _)
LoopTo(strategy, data, k) ==
    IF k = 0 THEN [NoBacktest EXCEPT !.data = data, !.strategy = strategy]
    ELSE LoopBar(LoopTo(strategy, data, k - 1), k)

\* Sums, means and variances of a list of numbers (np.mean, np.std ** 2 with
\* the given ddof).
SeqSum(q) == RSum(q, 1..Len(q))
Mean(q) == RDiv(SeqSum(q), Frac(Len(q), 1))
SquaredDeviations(q, mean) ==
    [i \in 1..Len(q) |-> RMul(RSub(q[i], mean), RSub(q[i], mean))]
Variance(q, ddof) ==
    RDiv(SeqSum(SquaredDeviations(q, Mean(q))), Frac(Len(q) - ddof, 1))

\* A metric that divides by a standard deviation is held unevaluated, as the
\* number it divides and the variance whose root it divides by: the value
\* is num / sqrt(variance), times sqrt(252) for the Sharpe ratio.  A number
\* the code returns as it is has variance 1.  Division is numpy's: by a zero
\* root it gives an infinity, or NaN when num is zero too.
OverRoot(num, variance) == [num |-> num, variance |-> variance]
PlainValue(x) == OverRoot(x, One)
IsZeroValue(v) == v.num = Zero /\ IsFin(v.variance) /\ v.variance # Zero

\* returns = [trade['pnl'] / initial_capital for trade in trades]
Returns(trades) ==
    [i \in 1..Len(trades) |-> RDiv(trades[i].pnl, Frac(initial_capital, 1))]

\* calculate_sharpe_ratio(returns): mean / std * sqrt(252) of the excess
\* returns, held as the mean and the variance (ddof = 1).
ExcessReturns(returns) ==
    [i \in 1..Len(returns) |-> RSub(returns[i], RDiv(RiskFreeRate, Frac(TradingDays, 1)))]
CalculateSharpeRatio(returns) ==
    IF returns = <<>> THEN PlainValue(Zero)
    ELSE IF Len(returns) > 1
    THEN OverRoot(Mean(ExcessReturns(returns)), Variance(ExcessReturns(returns), 1))
    ELSE PlainValue(Zero)

\* calculate_max_drawdown(returns)
RECURSIVE Cumulative(_, _)
Cumulative(returns, i) ==
    IF i = 0 THEN One ELSE RMul(Cumulative(returns, i - 1), RAdd(One, returns[i]))
Largest(S) == CHOOSE x \in S : \A y \in S : RLe(y, x)
Smallest(S) == CHOOSE x \in S : \A y \in S : RLe(x, y)
Drawdown(returns, i) ==
    RSub(RDiv(Cumulative(returns, i),
              Largest({Cumulative(returns, j) : j \in 1..i})),
         One)
CalculateMaxDrawdown(returns) ==
    IF returns = <<>> THEN Zero
    ELSE RAbs(Smallest({Drawdown(returns, i) : i \in 1..Len(returns)}))

\* win_rate
WinRate(trades) ==
    IF Len(trades) > 0
    THEN Frac(Cardinality({i \in 1..Len(trades) : RGt(trades[i].pnl, Zero)}),
              Len(trades))
    ELSE Zero

\* calculate_profit_factor(trades)
Profits(trades) ==
    RSum([i \in 1..Len(trades) |-> trades[i].pnl],
         {i \in 1..Len(trades) : RGt(trades[i].pnl, Zero)})
Losses(trades) ==
    RSum([i \in 1..Len(trades) |-> RAbs(trades[i].pnl)],
         {i \in 1..Len(trades) : RLt(trades[i].pnl, Zero)})
CalculateProfitFactor(trades) ==
    IF Losses(trades) # Zero THEN RDiv(Profits(trades), Losses(trades)) ELSE PosInf

\* calculate_risk_adjusted_return(returns): mean / (std if std > 0 else 1),
\* held as the mean and the variance (ddof = 0)
CalculateRiskAdjustedReturn(returns) ==
    IF returns = <<>> THEN PlainValue(Zero)
    ELSE IF RGt(Variance(returns, 0), Zero)
    THEN OverRoot(Mean(returns), Variance(returns, 0))
    ELSE PlainValue(Mean(returns))

\* the BacktestResult of the trades closed when the loop ends
BacktestResult(trades) ==
    [done |-> TRUE,
     sharpe_ratio |-> CalculateSharpeRatio(Returns(trades)),
     max_drawdown |-> CalculateMaxDrawdown(Returns(trades)),
     win_rate |-> WinRate(trades),
     profit_factor |-> CalculateProfitFactor(trades),
     risk_adjusted_return |-> CalculateRiskAdjustedReturn(Returns(trades))]

\* BacktestEngine.run_backtest(strategy, symbol, start_date, end_date), by the
\* data held for the period: "ok", "missing" when historical_data has no entry
\* under the period's key (load_historical_data raises KeyError), "short"
\* when it holds fewer than the 20 bars detect_market_condition indexes
\* (trend.iloc[-window] raises IndexError).  No BacktestResult is returned
\* for such a period; the class has no data_insufficient field.
RunBacktest(data) ==
    IF data = "ok" THEN [raised |-> FALSE, result |-> TRUE]
    ELSE [raised |-> TRUE, result |-> FALSE]

\* evaluate_strategy(strategy_id, symbol, periods), the try block: whether it
\* reaches the evaluator's stores.  The first backtest that raises ends it,
\* and so does the evaluator's ValueError on an empty list of results.
EvaluationCompletes(periods) ==
    /\ \A i \in 1..Len(periods) : ~RunBacktest(periods[i]).raised
    /\ periods # <<>>

\* get_strategy_recommendation(symbol).  answers[id] is what strategy id
\* answers when asked: the signal generate_signal returns, whether its class
\* defines get_confidence, and the confidence that returns.  Any exception
\* inside the try (a missing get_confidence, a Python float divided by zero)
\* ends in the answer of the except clause.
BuyAbove == Frac(2, 10)
SellBelow == Frac(-2, 10)

Answer(signal, has_confidence, confidence) ==
    [signal |-> signal, has_confidence |-> has_confidence, confidence |-> confidence]

NoRecommendation == [action |-> "HOLD", confidence |-> Zero, contributors |-> {}]

Recommendations(strats, allocs, answers) ==
    {id \in Range(strats) : id \in DOMAIN allocs /\ answers[id].signal # 0}

WeightedSignal(allocs, answers, recs) ==
    RDiv(RSum([id \in recs |-> RMul(RMul(Frac(answers[id].signal, 1),
                                          allocs[id].weight),
                                     answers[id].confidence)], recs),
         RSum([id \in recs |-> allocs[id].weight], recs))

\* The division: of Python floats it raises ZeroDivisionError on a zero
\* divisor, with a numpy.float64 on either side it returns inf or NaN.
DivisionRaises(allocs, recs) ==
    /\ RSum([id \in recs |-> allocs[id].weight], recs) = Zero
    /\ \A id \in recs : ~allocs[id].numpy

RecommendedAction(weighted_signal) ==
    IF RGt(weighted_signal, BuyAbove) THEN "BUY"
    ELSE IF RLt(weighted_signal, SellBelow) THEN "SELL"
    ELSE "HOLD"

Recommend(weighted_signal, recs) ==
    [action |-> RecommendedAction(weighted_signal),
     confidence |-> RAbs(weighted_signal),
     contributors |-> recs]

RecommendFrom(allocs, answers, recs) ==
    IF \/ recs = {}
       \/ \E id \in recs : ~answers[id].has_confidence
       \/ DivisionRaises(allocs, recs)
    THEN NoRecommendation
    ELSE Recommend(WeightedSignal(allocs, answers, recs), recs)

GetStrategyRecommendation(strats, allocs, answers) ==
    RecommendFrom(allocs, answers, Recommendations(strats, allocs, answers))

\* retire_strategy(strategy_id): the registry and the portfolio after the call.
RetireStrategy(strats, P, latest, id) ==
    IF id \notin Range(strats) THEN [strategies |-> strats, P |-> P]
    ELSE LET P1 == IF id \in DOMAIN P.allocations THEN AdjustAllocation(P, id, Zero) ELSE P
             remaining == Without(strats, id)
         IN  [strategies |-> remaining,
              P |-> SystemUpdatePortfolio(P1, latest)]

\* adapt_strategy_parameters(strategy_id).  raisers are the strategies whose
\* optimize_parameters raises; optimized tells whether optimize_parameters was
\* called, raised whether an exception leaves adapt_strategy_parameters.
AdaptStrategyParametersUnguarded(strats, hs, id, raisers) ==
    LET called == /\ id \in Range(strats)
                  /\ id \in AdaptiveIds
                  /\ GetStrategyHistory(hs, id) # <<>>
    IN  [optimized |-> called, raised |-> called /\ id \in raisers]
AdaptStrategyParameters(strats, hs, id, raisers) ==
    LET called == /\ id \in Range(strats)
                  /\ id \in AdaptiveIds
                  /\ GetStrategyHistory(hs, id) # <<>>
    IN  [optimized |-> called, raised |-> FALSE]

\* One round of the loop of run_maintenance, for strategy id.  M carries the
\* registry, the portfolio and what the tick has done so far; rounding[id] is
\* the rounding residue of the trend fit of strategy id.
MaintenanceStepSkipAdapt(M, latest, hs, id, raisers, rounding) ==
    IF ShouldRetireStrategy(hs, id, rounding[id])
    THEN LET r == RetireStrategy(M.strategies, M.P, latest, id)
         IN  [M EXCEPT !.strategies = r.strategies, !.P = r.P,
                       !.handled = Append(@, id), !.retired = @ \cup {id}]
    ELSE [M EXCEPT !.handled = Append(@, id)]
MaintenanceStep(M, latest, hs, id, raisers, rounding) ==
    IF ShouldRetireStrategy(hs, id, rounding[id])
    THEN LET r == RetireStrategy(M.strategies, M.P, latest, id)
         IN  [M EXCEPT !.strategies = r.strategies, !.P = r.P,
                       !.handled = Append(@, id), !.retired = @ \cup {id}]
    ELSE LET a == AdaptStrategyParameters(M.strategies, hs, id, raisers)
         IN  [M EXCEPT !.handled = Append(@, id), !.adapted = @ \cup {id},
                       !.failed = IF a.optimized /\ id \in raisers
                                  THEN @ \cup {id} ELSE @,
                       !.raised = a.raised]

\* The loop over list(self.strategies.keys()): an exception that leaves a
\* round ends the loop, and is caught by the try around the whole tick.
RECURSIVE MaintenanceLoop(_, _, _, _, _, _)
MaintenanceLoop(M, latest, hs, todo, raisers, rounding) ==
    IF todo = <<>> \/ M.raised THEN M
    ELSE MaintenanceLoop(MaintenanceStep(M, latest, hs, Head(todo), raisers, rounding),
                         latest, hs, Tail(todo), raisers, rounding)

TickStart(strats, P) ==
    [strategies |-> strats, P |-> P, handled |-> <<>>, retired |-> {},
     adapted |-> {}, failed |-> {}, raised |-> FALSE, updated |-> FALSE]

\* The end of run_maintenance(): the update_portfolio after the loop, skipped
\* when an exception left the loop.
FinishTick(M, latest) ==
    IF M.raised THEN M
    ELSE [M EXCEPT !.P = SystemUpdatePortfolio(M.P, latest),
                   !.updated = TRUE]

\* run_maintenance()
RunMaintenance(strats, P, latest, hs, raisers, rounding) ==
    FinishTick(MaintenanceLoop(TickStart(strats, P), latest, hs, strats,
                               raisers, rounding),
               latest)

-----------------------------------------------------------------------------
(* Bounds and input sets.                                                  *)

MaxEvaluations == 3      \* scores recorded in all histories together (Spec)
MaxSnapshots == 3        \* snapshots after which no further call is made (Spec)
MaxPortfolioSnapshots == 2   \* the same, of SpecPortfolio
MaxEvalHistory == 5      \* scores of one history (SpecEvaluator)
MaxScorings == 2         \* scores of one history (SpecScoring)
MaxRecommendEvaluations == 2   \* the same as MaxEvaluations, of SpecRecommend
MaxRanked == 3           \* scores filed before the ranking is asked (SpecRanking)
MaxBars == 4             \* bars of a backtest on which something happens (SpecBacktest)

SystemIds == {"s1", "s2"}

Pct(n) == Frac(n, 100)

\* evaluate_strategy inputs of Spec: the score the evaluator computes.
SystemScores == {Score(Pct(25), Pct(10)), Score(Pct(35), Pct(10)),
                 Score(Pct(45), Pct(10))}

\* update_portfolio inputs of SpecPortfolio: a score per id of a subset of ids.
PortfolioScores == {Score(Pct(35), Pct(10)), Score(Pct(45), Pct(0)),
                    Score(Pct(45), Pct(10)), Score(Pct(50), Pct(20))}
ScoreLists == UNION {[S -> PortfolioScores] : S \in SUBSET StrategyIds}

\* adjust_allocation inputs
NewWeights == {Pct(-10), Pct(0), Pct(10), Pct(50)}
SystemNewWeights == {Pct(10), Pct(50)}

\* the scores ranked by get_top_strategies, and the n asked for
RankedScores == {Score(Pct(30), Pct(10)), Score(Pct(45), Pct(10)),
                 Score(Pct(45), Pct(20))}
TopSizes == 0..3

\* evaluator.evaluate_strategy inputs: lists of up to two results, among
\* them the result of a run without a closed trade and one of a run without
\* a losing trade, whose profit factor is infinite
Results ==
    {Result(One, Pct(10), Pct(50), Frac(2, 1), Pct(50), <<"bull", "bull", "bull">>),
     Result(Zero, Zero, Zero, PosInf, Zero, <<"sideways", "sideways", "sideways">>),
     Result(Frac(2, 1), Pct(20), One, PosInf, One, <<"bull", "volatile", "bear">>),
     Result(Frac(-1, 1), Pct(30), Pct(25), Pct(50), Pct(-50),
            <<"bear", "bear", "sideways">>)}
ResultLists == {<<>>} \cup {<<r>> : r \in Results}
                      \cup {<<r1, r2>> : r1 \in Results, r2 \in Results}

\* run_backtest inputs: the close of a bar and the signal the strategy
\* answers on it
Closes == {100, 150}
Signals == {-1, 0, 1}
\* the closes of the bars of a period
Series == [1..MaxBars -> Closes]

\* evaluate_strategy inputs: the data held for each of the periods
PeriodLists == {<<>>, <<"ok">>, <<"ok", "missing">>, <<"short", "ok">>}

\* get_strategy_recommendation inputs: what a strategy answers, and the
\* scores and weights that shape the portfolio the recommendation reads
Silent == Answer(0, TRUE, One)
Answers == {Silent, Answer(1, FALSE, One), Answer(1, TRUE, Frac(9, 10)),
            Answer(-1, TRUE, Frac(9, 10)), Answer(1, TRUE, Frac(1, 5))}
RecommendScores == {Score(Pct(45), Pct(0)), Score(Pct(45), Pct(10)),
                    Score(Pct(50), Pct(20))}
RecommendWeights == {Pct(0), Pct(10)}

\* evaluate_strategy inputs of SpecEvaluator
EvaluatorIds == {"s1"}
EvaluatorScores == {Score(Pct(v), Pct(10)) : v \in {25, 30, 38, 45, 50}}
                       \cup {Score(NaN, Pct(10))}
Windows == {3, DefaultWindow}

RECURSIVE TotalLength(_, _)
TotalLength(hs, S) ==
    IF S = {} THEN 0
    ELSE LET x == CHOOSE y \in S : TRUE
         IN  Len(hs[x]) + TotalLength(hs, S \ {x})
TotalEvaluations(hs) == TotalLength(hs, DOMAIN hs)

-----------------------------------------------------------------------------
(* The state machine.                                                      *)

EmptyMap == [s \in {} |-> 0]

ThePortfolio == Portfolio(allocations, current_capital, historical_performance)

Call(op, id) ==
    [op |-> op, id |-> id, scores |-> EmptyMap, w |-> Zero, window |-> 0,
     rounding |-> Zero, fit |-> [s \in StrategyIds |-> Zero], ret |-> FALSE,
     raised |-> FALSE, handled |-> <<>>,
     retired |-> {},
     adapted |-> {}, failed |-> {}, updated |-> FALSE,
     answers |-> [s \in SystemIds |-> Silent], periods |-> <<>>,
     results |-> <<>>, score |-> Score(Zero, Zero), n |-> 0, top |-> <<>>,
     recommendation |-> NoRecommendation]

SetPortfolio(P) ==
    /\ allocations' = P.allocations
    /\ current_capital' = P.current_capital
    /\ historical_performance' = P.historical_performance

\* __init__ of the three classes; the capital is counted in units of the
\* initial capital.
Init ==
    /\ strategies = <<>>
    /\ strategy_scores = EmptyMap
    /\ strategy_scores_keys = <<>>
    /\ historical_scores = EmptyMap
    /\ allocations = EmptyMap
    /\ current_capital = One
    /\ historical_performance = 0
    /\ backtest = NoBacktest
    /\ last = Call("init", NoId)

\* The registry after add_strategy: the constructor runs first, and the
\* assignment self.strategies[id] = strategy only when it returned.
RegisterEarly(strats, id, constructs) ==
    IF id \in Range(strats) THEN strats ELSE Append(strats, id)
Register(strats, id, constructs) ==
    IF constructs /\ id \notin Range(strats) THEN Append(strats, id) ELSE strats

\* add_strategy(id, cls, **params); constructs is whether cls(**params) returns.
AddStrategy(id, constructs) ==
    /\ strategies' = Register(strategies, id, constructs)
    /\ last' = [Call("add_strategy", id) EXCEPT !.raised = ~constructs]
    /\ UNCHANGED <<backtest, strategy_scores, strategy_scores_keys, historical_scores, allocations,
                   current_capital, historical_performance>>

\* evaluate_strategy(id, symbol, periods).  periods gives the data held for
\* each period, outcome the score the evaluator computes from the backtests.
EvaluateStrategy(id, periods, outcome) ==
    /\ TotalEvaluations(historical_scores) < MaxEvaluations
    /\ IF id \in Range(strategies) /\ EvaluationCompletes(periods)
       THEN /\ strategy_scores' = StoreLatest(strategy_scores, id, outcome)
            /\ strategy_scores_keys' = StoreKey(strategy_scores_keys, id)
            /\ historical_scores' = StoreHistory(historical_scores, id, outcome)
            /\ last' = [Call("evaluate_strategy", id) EXCEPT
                           !.periods = periods,
                           !.ret = RGe(outcome.overall, KeepFrom)]
       ELSE /\ UNCHANGED <<strategy_scores, strategy_scores_keys, historical_scores>>
            /\ last' = [Call("evaluate_strategy", id) EXCEPT !.periods = periods]
    /\ UNCHANGED <<backtest, strategies, allocations, current_capital, historical_performance>>

\* AdaptiveLearningSystem.update_portfolio()
SystemUpdate ==
    /\ historical_performance < MaxSnapshots
    /\ SetPortfolio(SystemUpdatePortfolio(ThePortfolio, strategy_scores))
    /\ last' = Call("update_portfolio", NoId)
    /\ UNCHANGED <<backtest, strategies, strategy_scores, strategy_scores_keys, historical_scores>>

\* retire_strategy(id)
Retire(id) ==
    /\ historical_performance < MaxSnapshots
    /\ LET r == RetireStrategy(strategies, ThePortfolio, strategy_scores, id)
       IN  /\ strategies' = r.strategies
           /\ SetPortfolio(r.P)
    /\ last' = Call("retire_strategy", id)
    /\ UNCHANGED <<backtest, strategy_scores, strategy_scores_keys, historical_scores>>

\* adapt_strategy_parameters(id); raises is whether optimize_parameters raises.
Adapt(id, raises) ==
    /\ LET a == AdaptStrategyParameters(strategies, historical_scores, id,
                                        IF raises THEN {id} ELSE {})
       IN  last' = [Call("adapt_strategy_parameters", id) EXCEPT
                       !.raised = a.raised,
                       !.adapted = IF a.optimized THEN {id} ELSE {},
                       !.failed = IF a.optimized /\ raises THEN {id} ELSE {}]
    /\ UNCHANGED <<backtest, strategies, strategy_scores, strategy_scores_keys, historical_scores, allocations,
                   current_capital, historical_performance>>

\* The strategies whose trend is fitted by should_retire_strategy: the others
\* have no rounding residue to choose.
Fitted(id) == Len(GetStrategyHistory(historical_scores, id)) >= DefaultWindow

\* run_maintenance(); raisers are the strategies whose optimize_parameters
\* raises, rounding the residue of each strategy's trend fit.
Maintenance(raisers, rounding) ==
    /\ historical_performance < MaxSnapshots
    /\ \A id \in StrategyIds : Fitted(id) \/ rounding[id] = Zero
    /\ \E M \in {RunMaintenance(strategies, ThePortfolio, strategy_scores,
                                 historical_scores, raisers, rounding)} :
           /\ strategies' = M.strategies
           /\ SetPortfolio(M.P)
           /\ last' = [Call("run_maintenance", NoId) EXCEPT
                          !.fit = rounding,
                          !.handled = M.handled, !.retired = M.retired,
                          !.adapted = M.adapted, !.failed = M.failed,
                          !.updated = M.updated]
    /\ UNCHANGED <<backtest, strategy_scores, strategy_scores_keys, historical_scores>>

\* portfolio.adjust_allocation(id, w)
Adjust(id, w) ==
    /\ historical_performance < MaxSnapshots
    /\ SetPortfolio(AdjustAllocation(ThePortfolio, id, w))
    /\ last' = [Call("adjust_allocation", id) EXCEPT !.w = w]
    /\ UNCHANGED <<backtest, strategies, strategy_scores, strategy_scores_keys, historical_scores>>

Next ==
    \/ \E id \in SystemIds, constructs \in BOOLEAN : AddStrategy(id, constructs)
    \/ \E id \in SystemIds, periods \in PeriodLists, outcome \in SystemScores :
           EvaluateStrategy(id, periods, outcome)
    \/ SystemUpdate
    \/ \E id \in SystemIds : Retire(id)
    \/ \E id \in SystemIds, raises \in BOOLEAN : Adapt(id, raises)
    \/ \E raisers \in SUBSET (AdaptiveIds \cap Range(strategies)),
          rounding \in [StrategyIds -> Roundings] :
           Maintenance(raisers, rounding)
    \/ \E id \in SystemIds, w \in SystemNewWeights : Adjust(id, w)

Spec == Init /\ [][Next]_vars

-----------------------------------------------------------------------------
(* The system asked for recommendations: strategies are added, scored and  *)
(* allocated, weights are adjusted, and get_strategy_recommendation is     *)
(* called with every answer the strategies may give.                       *)

\* get_strategy_recommendation(symbol).  A strategy that is not asked (not
\* registered, or not allocated) gives no answer.
StrategyRecommendation(answers) ==
    /\ \A id \in SystemIds :
           id \in Range(strategies) \cap DOMAIN allocations \/ answers[id] = Silent
    /\ last' = [Call("get_strategy_recommendation", NoId) EXCEPT
                   !.answers = answers,
                   !.recommendation =
                       GetStrategyRecommendation(strategies, allocations, answers)]
    /\ UNCHANGED <<backtest, strategies, strategy_scores, strategy_scores_keys, historical_scores, allocations,
                   current_capital, historical_performance>>

NextRecommend ==
    \/ \E id \in SystemIds : AddStrategy(id, TRUE)
    \/ \E id \in SystemIds, outcome \in RecommendScores :
           /\ TotalEvaluations(historical_scores) < MaxRecommendEvaluations
           /\ EvaluateStrategy(id, <<"ok">>, outcome)
    \/ SystemUpdate
    \/ \E id \in SystemIds, w \in RecommendWeights : Adjust(id, w)
    \/ \E id \in SystemIds, raises \in BOOLEAN : Adapt(id, raises)
    \/ \E answers \in [SystemIds -> Answers] : StrategyRecommendation(answers)

SpecRecommend == Init /\ [][NextRecommend]_vars

-----------------------------------------------------------------------------
(* StrategyEvaluator scoring lists of backtest results: the results of one *)
(* strategy, so that backtest_results[0].strategy_id is its id.            *)

\* evaluator.evaluate_strategy(results), all results of strategy id
EvaluatorEvaluate(id, results) ==
    /\ Len(GetStrategyHistory(historical_scores, id)) < MaxScorings
    /\ IF results = <<>>
       THEN /\ UNCHANGED <<strategy_scores, strategy_scores_keys, historical_scores>>
            /\ last' = [Call("evaluator.evaluate_strategy", id) EXCEPT
                           !.raised = TRUE]
       ELSE /\ strategy_scores' =
                   StoreLatest(strategy_scores, id,
                               Score(StrategyScore(results).overall_score,
                                     StrategyScore(results).performance_metrics.max_drawdown))
            /\ strategy_scores_keys' = StoreKey(strategy_scores_keys, id)
            /\ historical_scores' =
                   StoreHistory(historical_scores, id,
                                Score(StrategyScore(results).overall_score,
                                      StrategyScore(results).performance_metrics.max_drawdown))
            /\ last' = [Call("evaluator.evaluate_strategy", id) EXCEPT
                           !.results = results,
                           !.score = StrategyScore(results)]
    /\ UNCHANGED <<backtest, strategies, allocations, current_capital,
                   historical_performance>>

NextScoring ==
    \E id \in EvaluatorIds, results \in ResultLists : EvaluatorEvaluate(id, results)

SpecScoring == Init /\ [][NextScoring]_vars

-----------------------------------------------------------------------------
(* BacktestEngine.run_backtest on its own: the bars of the period are read *)
(* one by one, then the metrics are computed.  The bars before the first   *)
(* one of the model are bars on which the strategy answers 0 with no       *)
(* position open: nothing happens on them.                                 *)

\* one round of the loop over the bars
EngineBar(close, signal) ==
    /\ ~backtest.result.done
    /\ Len(backtest.closes) < MaxBars
    /\ backtest' = BacktestBar(backtest, close, signal)
    /\ last' = Call("run_backtest: bar", NoId)
    /\ UNCHANGED <<strategies, strategy_scores, strategy_scores_keys, historical_scores, allocations,
                   current_capital, historical_performance>>

\* the end of the loop: the BacktestResult is built and returned
EngineResult ==
    /\ ~backtest.result.done
    /\ backtest' = [backtest EXCEPT !.result = BacktestResult(backtest.trades)]
    /\ last' = Call("run_backtest", NoId)
    /\ UNCHANGED <<strategies, strategy_scores, strategy_scores_keys, historical_scores, allocations,
                   current_capital, historical_performance>>

\* run_backtest(strategy, ...) on the bars data, up to the loop
EngineStart(strategy, data) ==
    /\ backtest = NoBacktest
    /\ backtest' = LoopTo(strategy, data, 0)
    /\ last' = Call("run_backtest: start", NoId)
    /\ UNCHANGED <<strategies, strategy_scores, strategy_scores_keys,
                   historical_scores, allocations, current_capital,
                   historical_performance>>

\* one round of the loop of a run on given bars
EngineLoopBar ==
    /\ ~backtest.result.done
    /\ Len(backtest.closes) < Len(backtest.data)
    /\ backtest' = LoopBar(backtest, Len(backtest.closes) + 1)
    /\ last' = Call("run_backtest: bar", NoId)
    /\ UNCHANGED <<strategies, strategy_scores, strategy_scores_keys,
                   historical_scores, allocations, current_capital,
                   historical_performance>>

\* the end of the loop of a run on given bars
EngineLoopResult ==
    /\ Len(backtest.data) > 0
    /\ Len(backtest.closes) = Len(backtest.data)
    /\ EngineResult

NextLoop ==
    \/ \E strategy \in Strategies, data \in Series : EngineStart(strategy, data)
    \/ EngineLoopBar
    \/ EngineLoopResult

SpecLoop == Init /\ [][NextLoop]_vars

NextBacktest ==
    \/ \E close \in Closes, signal \in Signals : EngineBar(close, signal)
    \/ EngineResult

SpecBacktest == Init /\ [][NextBacktest]_vars

-----------------------------------------------------------------------------
(* StrategyPortfolio on its own: any caller, any score list.               *)

\* portfolio.update_portfolio(scores)
PortfolioUpdate(scores) ==
    /\ historical_performance < MaxPortfolioSnapshots
    /\ SetPortfolio(UpdatePortfolio(ThePortfolio, scores))
    /\ last' = [Call("portfolio.update_portfolio", NoId) EXCEPT !.scores = scores]
    /\ UNCHANGED <<backtest, strategies, strategy_scores, strategy_scores_keys, historical_scores>>

\* portfolio.adjust_allocation(id, w)
PortfolioAdjust(id, w) ==
    /\ historical_performance < MaxPortfolioSnapshots
    /\ SetPortfolio(AdjustAllocation(ThePortfolio, id, w))
    /\ last' = [Call("portfolio.adjust_allocation", id) EXCEPT !.w = w]
    /\ UNCHANGED <<backtest, strategies, strategy_scores, strategy_scores_keys, historical_scores>>

NextPortfolio ==
    \/ \E scores \in ScoreLists : PortfolioUpdate(scores)
    \/ \E id \in StrategyIds, w \in NewWeights : PortfolioAdjust(id, w)

SpecPortfolio == Init /\ [][NextPortfolio]_vars

-----------------------------------------------------------------------------
(* StrategyEvaluator on its own: scores are filed, the two retirement      *)
(* queries are asked.                                                      *)

\* the stores of evaluator.evaluate_strategy(results), results of strategy id
\* scoring sc
EvaluatorStore(id, sc) ==
    /\ Len(GetStrategyHistory(historical_scores, id)) < MaxEvalHistory
    /\ strategy_scores' = StoreLatest(strategy_scores, id, sc)
    /\ strategy_scores_keys' = StoreKey(strategy_scores_keys, id)
    /\ historical_scores' = StoreHistory(historical_scores, id, sc)
    /\ last' = Call("evaluator.evaluate_strategy", id)
    /\ UNCHANGED <<backtest, strategies, allocations, current_capital, historical_performance>>

\* evaluator.is_strategy_declining(id, window)
AskDeclining(id, window, rounding) ==
    /\ last' = [Call("is_strategy_declining", id) EXCEPT
                   !.window = window, !.rounding = rounding,
                   !.ret = IsStrategyDeclining(historical_scores, id, window, rounding)]
    /\ UNCHANGED <<backtest, strategies, strategy_scores, strategy_scores_keys, historical_scores, allocations,
                   current_capital, historical_performance>>

\* evaluator.should_retire_strategy(id)
AskShouldRetire(id, rounding) ==
    /\ last' = [Call("should_retire_strategy", id) EXCEPT
                   !.rounding = rounding,
                   !.ret = ShouldRetireStrategy(historical_scores, id, rounding)]
    /\ UNCHANGED <<backtest, strategies, strategy_scores, strategy_scores_keys, historical_scores, allocations,
                   current_capital, historical_performance>>

NextEvaluator ==
    \/ \E id \in EvaluatorIds, sc \in EvaluatorScores : EvaluatorStore(id, sc)
    \/ \E id \in EvaluatorIds, window \in Windows, rounding \in Roundings :
           AskDeclining(id, window, rounding)
    \/ \E id \in EvaluatorIds, rounding \in Roundings : AskShouldRetire(id, rounding)

SpecEvaluator == Init /\ [][NextEvaluator]_vars

-----------------------------------------------------------------------------
(* StrategyEvaluator ranking its latest scores: scores of several          *)
(* strategies are filed in every order, and get_top_strategies is asked.   *)

\* evaluator.get_top_strategies(n)
AskTop(n) ==
    /\ last' = [Call("get_top_strategies", NoId) EXCEPT
                   !.n = n,
                   !.top = GetTopStrategies(strategy_scores, strategy_scores_keys, n)]
    /\ UNCHANGED <<backtest, strategies, strategy_scores, strategy_scores_keys,
                   historical_scores, allocations, current_capital,
                   historical_performance>>

NextRanking ==
    \/ \E id \in StrategyIds, sc \in RankedScores :
           /\ TotalEvaluations(historical_scores) < MaxRanked
           /\ EvaluatorStore(id, sc)
    \/ \E n \in TopSizes : AskTop(n)

SpecRanking == Init /\ [][NextRanking]_vars

-----------------------------------------------------------------------------
(* Properties.                                                             *)

SumOfWeights == RSum([s \in DOMAIN allocations |-> allocations[s].weight],
                     DOMAIN allocations)

\* A strategy that was scored while registered and is registered no more:
\* only retire_strategy removes from the registry.
Retired(id) == id \in DOMAIN historical_scores /\ id \notin Range(strategies)

\* C1: retirement is terminal.  After retire_strategy, and after every later
\* update_portfolio or run_maintenance, a retired strategy that was not added
\* again is absent from the registry and holds no positive weight and no
\* capital in the allocation map.
C1_RetiredHoldsNothing ==
    last.op \in {"retire_strategy", "run_maintenance", "update_portfolio"} =>
        \A id \in SystemIds :
            Retired(id) /\ id \in DOMAIN allocations =>
                /\ ~RGt(allocations[id].weight, Zero)
                /\ ~RGt(allocations[id].current_allocation, Zero)

\* C2: after any update_portfolio or adjust_allocation of the portfolio, the
\* weights of a non-empty allocation map sum to 1.0 within 1e-6.
C2_WeightsSumToOne ==
    (/\ last.op \in {"portfolio.update_portfolio", "portfolio.adjust_allocation"}
     /\ DOMAIN allocations # {}) =>
        /\ RGe(SumOfWeights, Frac(999999, 1000000))
        /\ RLe(SumOfWeights, Frac(1000001, 1000000))

\* C3: after every mutating call of the portfolio, every allocation has
\* weight <= 0.25 and weight <= its own max_allocation.
C3_WeightWithinCap ==
    last.op \in {"portfolio.update_portfolio", "portfolio.adjust_allocation"} =>
        \A id \in DOMAIN allocations :
            /\ RLe(allocations[id].weight, Frac(25, 100))
            /\ RLe(allocations[id].weight, allocations[id].max_allocation)

\* C4: after every mutating call of the system, every strategy of the
\* allocation map has a latest score whose overall_score is >= 0.4.
C4_AllocatedQualifies ==
    last.op \in {"evaluate_strategy", "update_portfolio", "adjust_allocation",
                 "retire_strategy", "run_maintenance"} =>
        \A id \in DOMAIN allocations :
            /\ id \in DOMAIN strategy_scores
            /\ RGe(strategy_scores[id].overall, Frac(4, 10))

\* C5: a run_maintenance tick handles every strategy registered when it
\* starts exactly once, in registry order: one for which should_retire_strategy
\* is true is retired and gone from the registry, every other one stays
\* registered with adapt_strategy_parameters called on it; the final
\* update_portfolio runs.
C5_TickHandlesEveryStrategy ==
    [][last'.op = "run_maintenance" =>
        /\ last'.handled = strategies
        /\ \A id \in Range(strategies) :
              IF ShouldRetireStrategy(historical_scores, id, last'.fit[id])
              THEN /\ id \in last'.retired
                   /\ id \notin last'.adapted
                   /\ id \notin Range(strategies')
              ELSE /\ id \in last'.adapted
                   /\ id \notin last'.retired
                   /\ id \in Range(strategies')
        /\ last'.updated]_vars

C5_Witness ==
    /\ last.op = "run_maintenance"
    /\ last.retired # {}
    /\ last.adapted # {}
    /\ last.updated

C7_UnscoredIsNeverRetired ==
    [][last'.op = "run_maintenance" =>
        \A id \in Range(strategies) :
            GetStrategyHistory(historical_scores, id) = <<>> =>
                /\ \A r \in Roundings : ~ShouldRetireStrategy(historical_scores, id, r)
                /\ id \notin last'.retired
                /\ id \in Range(strategies')]_vars

C7_Witness ==
    /\ last.op = "run_maintenance"
    /\ last.retired # {}
    /\ \E id \in Range(strategies) : id \notin DOMAIN historical_scores

\* The history the last query was about, and its overall scores.
AskedHistory == GetStrategyHistory(historical_scores, last.id)
Overall(i) == AskedHistory[i].overall

\* C8: for a strategy with a non-empty history, should_retire_strategy is
\* true if and only if the latest overall score is < 0.3, or
\* is_strategy_declining is true, or the history has at least 3 entries and
\* the last 3 overall scores are all < 0.4.
C8_RetireIffAnyCriterion ==
    (last.op = "should_retire_strategy" /\ AskedHistory # <<>>) =>
        LET n == Len(AskedHistory)
        IN  last.ret <=>
              \/ RLt(Overall(n), Frac(3, 10))
              \/ IsStrategyDeclining(historical_scores, last.id, 5, last.rounding)
              \/ /\ n >= 3
                 /\ RLt(Overall(n), Frac(4, 10))
                 /\ RLt(Overall(n - 1), Frac(4, 10))
                 /\ RLt(Overall(n - 2), Frac(4, 10))

\* retired for the trend alone: the latest score still qualifies
C8_Witness ==
    /\ last.op = "should_retire_strategy"
    /\ last.ret
    /\ AskedHistory # <<>>
    /\ RGe(Overall(Len(AskedHistory)), Frac(4, 10))
    /\ \E i \in 1..Len(AskedHistory) : Overall(i) # Overall(Len(AskedHistory))

\* The sign of the least-squares slope of the last w scores against their run
\* index is the sign of the sum over i < j of (j - i) * (y[j] - y[i]).
RECURSIVE PairSum(_, _, _)
PairSum(w, i, j) ==
    LET n == Len(AskedHistory)
        y(m) == Overall(n - w + m)
    IN  IF i >= w THEN Zero
        ELSE IF j > w THEN PairSum(w, i + 1, i + 2)
        ELSE RAdd(RMul(Frac(j - i, 1), RSub(y(j), y(i))), PairSum(w, i, j + 1))

C10_NothingQualifiesIsNoOp ==
    [][(/\ last'.op = "portfolio.update_portfolio"
        /\ \A s \in DOMAIN last'.scores :
               ~RGe(last'.scores[s].overall, Frac(4, 10))) =>
        UNCHANGED <<allocations, current_capital, historical_performance>>]_vars

C10_Witness ==
    /\ last.op = "portfolio.update_portfolio"
    /\ DOMAIN last.scores # {}
    /\ \A s \in DOMAIN last.scores : ~RGe(last.scores[s].overall, Frac(4, 10))
    /\ DOMAIN allocations # {}
    /\ historical_performance = 1

C11_IdempotentOnNumbers ==
    [][(/\ last.op = "portfolio.update_portfolio"
        /\ last'.op = "portfolio.update_portfolio"
        /\ last'.scores = last.scores) =>
        /\ DOMAIN allocations' = DOMAIN allocations
        /\ \A s \in DOMAIN allocations :
               allocations'[s].weight = allocations[s].weight]_vars

\* The contributors as the specification names them: registered, with a
\* non-zero weight in the portfolio, answering a non-zero signal.
Contributors ==
    {id \in Range(strategies) :
        /\ id \in DOMAIN allocations
        /\ allocations[id].weight # Zero
        /\ last.answers[id].signal # 0}

ContributorsSignal ==
    RDiv(RSum([id \in Contributors |->
                  RMul(RMul(Frac(last.answers[id].signal, 1), allocations[id].weight),
                       last.answers[id].confidence)], Contributors),
         RSum([id \in Contributors |-> allocations[id].weight], Contributors))

\* C12: get_strategy_recommendation, when every contributor reports a
\* confidence, takes as contributors exactly the registered strategies with a
\* non-zero weight and a non-zero signal; with none it returns HOLD with
\* confidence 0.0, otherwise BUY if weighted_signal > 0.2, SELL if < -0.2, HOLD
\* otherwise, with confidence |weighted_signal|, where weighted_signal is
\* sum(signal * weight * confidence) / sum(weight) over the contributors.
C12_RecommendationIsWeightedSignal ==
    (/\ last.op = "get_strategy_recommendation"
     /\ \A id \in SystemIds : last.answers[id].has_confidence) =>
        IF Contributors = {}
        THEN /\ last.recommendation.action = "HOLD"
             /\ last.recommendation.confidence = Zero
        ELSE /\ last.recommendation.contributors = Contributors
             /\ last.recommendation.confidence = RAbs(ContributorsSignal)
             /\ last.recommendation.action =
                    IF RGt(ContributorsSignal, Frac(2, 10)) THEN "BUY"
                    ELSE IF RLt(ContributorsSignal, Frac(-2, 10)) THEN "SELL"
                    ELSE "HOLD"

\* The confidence of a contributor, 1.0 for one whose class has no
\* get_confidence, and the weighted signal with it.
DefaultedConfidence(id) ==
    IF last.answers[id].has_confidence THEN last.answers[id].confidence ELSE One

DefaultedSignal ==
    RDiv(RSum([id \in Contributors |->
                  RMul(RMul(Frac(last.answers[id].signal, 1), allocations[id].weight),
                       DefaultedConfidence(id))], Contributors),
         RSum([id \in Contributors |-> allocations[id].weight], Contributors))

\* What the recommendation is when a contributor has no get_confidence.
C13_MissingConfidenceIsOne ==
    (/\ last.op = "get_strategy_recommendation"
     /\ \E id \in Contributors : ~last.answers[id].has_confidence) =>
        /\ last.recommendation.contributors = Contributors
        /\ last.recommendation.confidence = RAbs(DefaultedSignal)
        /\ last.recommendation.action =
               IF RGt(DefaultedSignal, Frac(2, 10)) THEN "BUY"
               ELSE IF RLt(DefaultedSignal, Frac(-2, 10)) THEN "SELL"
               ELSE "HOLD"

\* C13: a strategy lacking the optional capabilities is handled by default.
\* In get_strategy_recommendation an allocated strategy without
\* get_confidence that emits a non-zero signal contributes with confidence
\* 1.0, the recommendation being computed from all contributors; and
\* adapt_strategy_parameters on a strategy without optimize_parameters
\* changes nothing and raises nothing.
C13_MissingCapabilityIsDefaulted ==
    [][/\ C13_MissingConfidenceIsOne'
       /\ (last'.op = "adapt_strategy_parameters" /\ last'.id \notin AdaptiveIds) =>
              /\ UNCHANGED <<strategies, strategy_scores, historical_scores,
                             allocations, current_capital, historical_performance>>
              /\ last'.adapted = {}
              /\ ~last'.raised]_vars

\* C14: a period with insufficient or missing data does not make run_backtest
\* raise, and evaluate_strategy of a registered strategy over several periods
\* of which some lack data still scores the strategy from the remaining
\* periods: one score is appended to its history.
C14_MissingDataIsSkipped ==
    [][(/\ last'.op = "evaluate_strategy"
        /\ last'.id \in Range(strategies)
        /\ \E i \in 1..Len(last'.periods) : last'.periods[i] = "ok"
        /\ \E i \in 1..Len(last'.periods) : last'.periods[i] # "ok") =>
        /\ \A i \in 1..Len(last'.periods) : ~RunBacktest(last'.periods[i]).raised
        /\ Len(GetStrategyHistory(historical_scores', last'.id)) =
               Len(GetStrategyHistory(historical_scores, last'.id)) + 1]_vars

\* C15: every backtest run that closes zero trades (the strategy never
\* signals, or a position is opened and never closed) has sharpe_ratio = 0,
\* max_drawdown = 0, win_rate = 0, risk_adjusted_return = 0 and
\* profit_factor = 0.
C15_NoTradeMetricsAreZero ==
    (backtest.result.done /\ backtest.trades = <<>>) =>
        /\ IsZeroValue(backtest.result.sharpe_ratio)
        /\ backtest.result.max_drawdown = Zero
        /\ backtest.result.win_rate = Zero
        /\ IsZeroValue(backtest.result.risk_adjusted_return)
        /\ backtest.result.profit_factor = Zero

\* C16: the evaluator caps each profit factor at 3.0 before it enters a
\* normalized score.  For every list of results, those with an unbounded
\* profit factor included, the profit-factor term of performance_score is at
\* most 0.20 * 3.0 and overall_score is a finite number.
C16_ProfitFactorIsCapped ==
    (last.op = "evaluator.evaluate_strategy" /\ last.results # <<>>) =>
        /\ RLe(PerformanceTerm(last.score.performance_metrics, "profit_factor"),
               RMul(performance_weights.profit_factor, Frac(3, 1)))
        /\ IsFin(last.score.overall_score)

\* C17: add_strategy propagates a construction failure and leaves the system
\* unchanged.  When the constructor raises, add_strategy raises too, and the
\* registry (the strategy already registered under that id included), the
\* score history and the allocation map are what they were before the call.
C17_FailedAddChangesNothing ==
    [][\A id \in SystemIds :
          AddStrategy(id, FALSE) =>
              /\ last'.op = "add_strategy" /\ last'.id = id /\ last'.raised
              /\ UNCHANGED <<strategies, strategy_scores, historical_scores,
                             allocations>>]_vars
C17_Witness ==
    /\ last.op = "add_strategy" /\ last.raised
    /\ last.id \in Range(strategies) \cap DOMAIN historical_scores
                                     \cap DOMAIN allocations

\* C18: the score history is append-only and consistent with the latest-score
\* map.  Over every step of the system (evaluate, update_portfolio,
\* retire_strategy, run_maintenance, adapt_strategy_parameters among them)
\* each strategy's history before the step is a prefix of its history after
\* it; a successful evaluation appends exactly one entry, the new score, to
\* the history of the evaluated id and none to any other; and the latest
\* score of an id is the last entry of its history.
C18_IsPrefix(h, g) == Len(h) <= Len(g) /\ SubSeq(g, 1, Len(h)) = h
C18_LatestIsLast ==
    /\ DOMAIN strategy_scores = DOMAIN historical_scores
    /\ \A id \in DOMAIN strategy_scores :
           /\ historical_scores[id] # <<>>
           /\ strategy_scores[id] =
                  historical_scores[id][Len(historical_scores[id])]
C18_Succeeds ==
    /\ last'.op = "evaluate_strategy"
    /\ last'.id \in Range(strategies)
    /\ EvaluationCompletes(last'.periods)
C18_HistoryIsAppendOnly ==
    [][/\ \A id \in StrategyIds :
              C18_IsPrefix(GetStrategyHistory(historical_scores, id),
                           GetStrategyHistory(historical_scores', id))
       /\ C18_Succeeds =>
              \A id \in StrategyIds :
                  Len(GetStrategyHistory(historical_scores', id)) =
                      Len(GetStrategyHistory(historical_scores, id))
                          + (IF id = last'.id THEN 1 ELSE 0)
       /\ C18_LatestIsLast']_vars
C18_Witness ==
    /\ last.op = "evaluate_strategy"
    /\ last.id \in Range(strategies) /\ EvaluationCompletes(last.periods)
    /\ Len(GetStrategyHistory(historical_scores, last.id)) >= 2
    /\ \E other \in DOMAIN historical_scores \ {last.id} :
           historical_scores[other] # <<>>
    /\ allocations # EmptyMap

\* C19: adjust_allocation(id, new_weight) on an allocated id sets the weight
\* of id to min(new_weight, 0.25), multiplies the weight of every other
\* allocated strategy by (1 - clamped new_weight) / (sum of the other
\* weights), and appends exactly one snapshot; on an id that is not allocated
\* it changes allocations, capital and snapshot history in nothing.
C19_Others == DOMAIN allocations \ {last'.id}
C19_Factor ==
    RDiv(RSub(One, PyMin(last'.w, MaxWeight)),
         RSum([s \in C19_Others |-> allocations[s].weight], C19_Others))
C19_AdjustRescalesOthers ==
    [][last'.op = "portfolio.adjust_allocation" =>
          IF last'.id \in DOMAIN allocations
          THEN /\ DOMAIN allocations' = DOMAIN allocations
               /\ allocations'[last'.id].weight = PyMin(last'.w, MaxWeight)
               /\ \A s \in C19_Others :
                      allocations'[s].weight =
                          RMul(allocations[s].weight, C19_Factor)
               /\ historical_performance' = historical_performance + 1
          ELSE UNCHANGED <<allocations, current_capital,
                           historical_performance>>]_vars

\* C20: after every update_portfolio that changes the allocation set, one
\* that removes previously allocated strategies included, and after every
\* adjust_allocation, the current_allocation of each allocation is the
\* current_capital of that moment times the weight of the allocation.
C20_AllocationIsCapitalTimesWeight ==
    [][(\/ /\ last'.op = "portfolio.update_portfolio"
           /\ DOMAIN allocations' # DOMAIN allocations
        \/ /\ last'.op = "portfolio.adjust_allocation"
           /\ last'.id \in DOMAIN allocations) =>
          \A s \in DOMAIN allocations' :
              allocations'[s].current_allocation =
                  RMul(current_capital', allocations'[s].weight)]_vars

\* C21: update_portfolio gives equal weights to strategies of equal risk and
\* handles a zero drawdown.  N qualifying strategies with the same
\* max_drawdown, a max_drawdown of 0 included, each get the weight 1/N, and
\* every weight is a finite number.
C21_Qualifying == ValidStrategies(last'.scores)
C21_EqualRiskIsEqualWeight ==
    [][(/\ last'.op = "portfolio.update_portfolio"
        /\ C21_Qualifying # {}
        /\ \A a, b \in C21_Qualifying :
               last'.scores[a].max_drawdown = last'.scores[b].max_drawdown) =>
          /\ DOMAIN allocations' = C21_Qualifying
          /\ \A s \in C21_Qualifying :
                 /\ IsFin(allocations'[s].weight)
                 /\ allocations'[s].weight = Frac(1, Cardinality(C21_Qualifying))]_vars

\* C22: the consistency_score the evaluator computes is exactly 0 for fewer
\* than 2 backtest results, and lies in (0, 1] for every list of 2 or more
\* results, results without a losing trade included.
C22_ConsistencyInUnitInterval ==
    (last.op = "evaluator.evaluate_strategy" /\ last.results # <<>>) =>
        IF Len(last.results) < 2
        THEN last.score.consistency_score = Zero
        ELSE /\ RGt(last.score.consistency_score, Zero)
             /\ RLe(last.score.consistency_score, One)

\* C23: get_top_strategies(n) returns at most n of the latest scores, sorted
\* by overall_score descending, and two strategies of equal overall_score
\* appear in the order of their strategy ids, so that the result does not
\* depend on the order in which the strategies were evaluated.
C23_IdOrder == <<"s1", "s2", "s3">>
C23_Position(q, id) == CHOOSE i \in 1..Len(q) : q[i] = id
C23_TopIsSortedWithTiesById ==
    last.op = "get_top_strategies" =>
        /\ Len(last.top) <= last.n
        /\ Len(last.top) = Cardinality(Range(last.top))
        /\ Range(last.top) \subseteq DOMAIN strategy_scores
        /\ \A i, j \in 1..Len(last.top) :
               i < j =>
                   \/ RGt(strategy_scores[last.top[i]].overall,
                          strategy_scores[last.top[j]].overall)
                   \/ /\ strategy_scores[last.top[i]].overall =
                             strategy_scores[last.top[j]].overall
                      /\ C23_Position(C23_IdOrder, last.top[i])
                             < C23_Position(C23_IdOrder, last.top[j])

\* C24: run_backtest has no look-ahead.  At bar i generate_signal receives
\* exactly the bars 0..i, so that for two price series that agree on their
\* first k bars and the same deterministic strategy, the signals requested,
\* the positions opened and the trades closed during the first k bars are
\* the same.
C24_FirstBars(B) ==
    [signals |-> B.signals, closes |-> B.closes, positions |-> B.positions,
     current_position |-> B.current_position, trades |-> B.trades,
     capital |-> B.capital]
C24_NoLookAhead ==
    (backtest.data # <<>> /\ ~backtest.result.done) =>
        /\ \A i \in 1..Len(backtest.signals) :
               backtest.signals[i] =
                   GenerateSignal(backtest.strategy, SubSeq(backtest.data, 1, i))
        /\ \A other \in Series :
               LET k == Len(backtest.closes)
               IN  SubSeq(other, 1, k) = SubSeq(backtest.data, 1, k) =>
                       C24_FirstBars(LoopTo(backtest.strategy, other, k)) =
                           C24_FirstBars(backtest)
C24_Witness ==
    /\ backtest.data # <<>> /\ ~backtest.result.done
    /\ Len(backtest.closes) = 3
    /\ backtest.trades # <<>> /\ backtest.current_position # NoPosition
    /\ \E other \in Series :
           /\ SubSeq(other, 1, 3) = SubSeq(backtest.data, 1, 3)
           /\ other # backtest.data
           /\ GenerateSignal(backtest.strategy, other)
                  # GenerateSignal(backtest.strategy, backtest.data)

\* C25: an empty evaluation input is a configuration error that reaches the
\* caller and records nothing.  The system's evaluate_strategy(id, symbol,
\* periods = []) on a registered id surfaces the evaluator's error to its
\* caller instead of returning a keep/discard verdict, and the score history
\* and the latest-score map are unchanged.
C25_EmptyInputReachesCaller ==
    [][(/\ last'.op = "evaluate_strategy"
        /\ last'.id \in Range(strategies)
        /\ last'.periods = <<>>) =>
          /\ last'.raised
          /\ UNCHANGED <<strategy_scores, historical_scores>>]_vars

\* C26: calculate_sharpe_ratio returns 0 for fewer than 2 per-trade returns
\* and for every list of returns whose variance is zero (two or more
\* identical returns); it never returns an infinite or undefined value.
C26_IsFiniteValue(v) ==
    IsFin(v.num) /\ IsFin(v.variance) /\ RGt(v.variance, Zero)
C26_ZeroVariance(returns) ==
    Len(returns) >= 2 /\ Variance(returns, 1) = Zero
C26_SharpeIsZeroWithoutVariance ==
    backtest.result.done =>
        /\ C26_IsFiniteValue(backtest.result.sharpe_ratio)
        /\ (Len(backtest.trades) < 2 \/ C26_ZeroVariance(Returns(backtest.trades))) =>
               IsZeroValue(backtest.result.sharpe_ratio)

\* C27: market_adaptability[regime] is the mean Sharpe ratio over the results
\* whose regime snapshot shows that regime at start, middle or end, each such
\* result counted once however many of its three samples show the regime; a
\* regime observed in no result gets 0.
C27_Showing(results, regime) ==
    {i \in 1..Len(results) :
        \E p \in 1..Len(results[i].market_conditions) :
            results[i].market_conditions[p] = regime}
C27_MeanOnce(results, I) ==
    IF I = {} THEN Zero
    ELSE RDiv(RSum([i \in I |-> results[i].sharpe_ratio], I),
              Frac(Cardinality(I), 1))
C27_AdaptabilityCountsResultsOnce ==
    (last.op = "evaluator.evaluate_strategy" /\ last.results # <<>>) =>
        \A regime \in MarketCondition :
            last.score.market_adaptability[regime] =
                C27_MeanOnce(last.results, C27_Showing(last.results, regime))

\* C28: during run_backtest at most one position is open at any bar.  A
\* non-zero signal while a position is open changes nothing (no reversal, no
\* second position, no trade); a position is never opened and closed on the
\* same bar; a trade is recorded only when an open position is closed by a
\* zero signal, so the recorded trades are in time order and do not overlap;
\* and the capital is initial_capital plus the sum of the recorded trades'
\* pnl (a position still open at the last bar produces no trade).
C28_IsOpen(B) == B.current_position # NoPosition
C28_Signal(B) == B.signals[Len(B.signals)]
C28_Pnl(B) == [i \in 1..Len(B.trades) |-> B.trades[i].pnl]
C28_Books(B) ==
    /\ B.positions = Len(B.trades) + (IF C28_IsOpen(B) THEN 1 ELSE 0)
    /\ \A i \in 1..Len(B.trades) :
           /\ B.trades[i].entry_time < B.trades[i].exit_time
           /\ i < Len(B.trades) =>
                  B.trades[i].exit_time < B.trades[i + 1].entry_time
    /\ C28_IsOpen(B) =>
           \A i \in 1..Len(B.trades) :
               B.trades[i].exit_time < B.current_position.entry_time
    /\ B.capital = RAdd(Frac(initial_capital, 1), SeqSum(C28_Pnl(B)))
C28_OnePositionAtATime ==
    [][/\ C28_Books(backtest')
       /\ Len(backtest'.closes) = Len(backtest.closes) + 1 =>
              /\ (C28_Signal(backtest') # 0 /\ C28_IsOpen(backtest)) =>
                     /\ backtest'.current_position = backtest.current_position
                     /\ backtest'.positions = backtest.positions
                     /\ backtest'.trades = backtest.trades
                     /\ backtest'.capital = backtest.capital
              /\ backtest'.trades # backtest.trades =>
                     /\ C28_Signal(backtest') = 0
                     /\ C28_IsOpen(backtest) /\ ~C28_IsOpen(backtest')
                     /\ Len(backtest'.trades) = Len(backtest.trades) + 1
                     /\ SubSeq(backtest'.trades, 1, Len(backtest.trades))
                            = backtest.trades
       /\ (backtest'.result.done /\ ~backtest.result.done) =>
              /\ backtest'.trades = backtest.trades
              /\ backtest'.capital = backtest.capital]_vars
C28_Witness ==
    /\ last.op = "run_backtest: bar"
    /\ backtest.trades # <<>>
    /\ C28_IsOpen(backtest)
    /\ backtest.current_position.entry_time < Len(backtest.closes)
    /\ backtest.current_position.type = "long"
    /\ C28_Signal(backtest) < 0

\* C29: reallocation neither creates nor destroys capital.  After any
\* sequence of update_portfolio, adjust_allocation, retire_strategy and
\* run_maintenance calls the portfolio's current_capital is the initial
\* capital, and the sum of current_allocation over the allocation map does
\* not exceed current_capital.
C29_Allocated ==
    RSum([s \in DOMAIN allocations |-> allocations[s].current_allocation],
         DOMAIN allocations)
C29_CapitalIsConserved ==
    /\ current_capital = One
    /\ RLe(C29_Allocated, current_capital)

\* C30: every weight of the allocation map stays within [0, 1] in every
\* reachable state.  For any new_weight passed to adjust_allocation (a
\* negative value or a value above 1 included) and any score list passed to
\* update_portfolio, no allocation ends with a negative weight, a weight
\* above 1 or a negative current_allocation.
C30_WeightsStayInUnitInterval ==
    \A s \in DOMAIN allocations :
        /\ RGe(allocations[s].weight, Zero)
        /\ RLe(allocations[s].weight, One)
        /\ RGe(allocations[s].current_allocation, Zero)

====
